---- MODULE Spec2Model ----
(***************************************************************************)
(* Model of go-apk: the package resolver of pkg/apk/repo.go (PkgResolver)  *)
(* and the fetch/expand/install pipeline of APK.FixateWorld.               *)
(*                                                                         *)
(* Strings of the program are modelled by structured values: a dependency *)
(* atom "name", "!name", "name=1", "name<2" is a record, a version string  *)
(* is a number (0 is the empty string, BadVersion a string that does not   *)
(* parse), a Go map is a function whose DOMAIN is the set of its keys.     *)
(***************************************************************************)
EXTENDS Integers, Sequences, FiniteSets, TLC

VARIABLES indexes, packages, pc, nameMap, providesMap, installIfMap, runs, resolved

resolverVars == <<indexes, packages, pc, nameMap, providesMap, installIfMap, runs, resolved>>

\* FixateWorld: the main goroutine, the errgroup, the consumer and the workers
VARIABLES allpkgs, jobs, conflictInstalled, fpc, nextSpawn, active, cpc, ci, wpc, done,
          expanded, cancelled, gerr, installed, log, result

pipeVars == <<allpkgs, jobs, conflictInstalled, fpc, nextSpawn, active, cpc, ci, wpc, done,
              expanded, cancelled, gerr, installed, log, result>>

\* the cache directory of one package and the expandPackage calls for it
VARIABLES cacheDir, pkgsum, apk, calls

cacheVars == <<cacheDir, pkgsum, apk, calls>>

\* the file etc/apk/repositories, the argument of SetRepositories and the
\* result of GetRepositories
VARIABLES reposFile, repos, got

repoVars == <<reposFile, repos, got>>

\* one call of sortPackages: the candidates, the other arguments, the result
VARIABLES cand, sortArgs, sortRes

sortVars == <<cand, sortArgs, sortRes>>

auxVars == <<cacheVars, repoVars, sortVars>>

vars == <<resolverVars, pipeVars, auxVars>>

(***************************************************************************)
(* Bounds of the model.                                                    *)
(***************************************************************************)
MaxIndex == 4
MaxAtoms == 2
MaxRuns == 2
MaxPkgs == 3
MaxJobs == 2
MaxHash == 2
MaxExpands == 2
MaxStrLen == 2
MaxRepos == 2
MaxCand == 3

(***************************************************************************)
(* Atoms and versions.                                                     *)
(***************************************************************************)
NoVersion == 0
BadVersion == 9

Atom(n, c, v) == [neg |-> FALSE, name |-> n, cmp |-> c, ver |-> v, pin |-> ""]
Dep(n) == Atom(n, "", NoVersion)
Not(n) == [neg |-> TRUE, name |-> n, cmp |-> "", ver |-> NoVersion, pin |-> ""]

\* dep[1:] of a "!..." atom: the same text without the leading "!"
StripNeg(dep) == [dep EXCEPT !.neg = FALSE]

resolvePackageNameVersionPin(a) == [name |-> a.name, version |-> a.ver, dep |-> a.cmp, pin |-> a.pin]

\* a version string parses when it is a well-formed Alpine version
parseVersionOK(v) == v # NoVersion /\ v # BadVersion

compareVersions(v1, v2) == IF v1 > v2 THEN "greater" ELSE IF v1 < v2 THEN "less" ELSE "equal"

satisfies(cmp, actual, required) ==
    CASE cmp = "" -> TRUE
      [] cmp = "=" -> actual = required
      [] cmp = "<" -> actual < required
      [] cmp = ">" -> actual > required
      [] OTHER -> FALSE

(***************************************************************************)
(* Packages.  pinnedName and uri come from the index the package is in.    *)
(***************************************************************************)
NoPkg == [name |-> ""]

Pkg(n, v, d, pr, ii, prio, o, p) ==
    [name |-> n, version |-> v, deps |-> d, provides |-> pr, installIf |-> ii,
     priority |-> prio, origin |-> o, pinnedName |-> p,
     uri |-> IF p = "" THEN "main" ELSE p]

Catalogue ==
    << Pkg("a", 1, <<Dep("b")>>, <<>>, <<>>, 0, "", ""),
       Pkg("a", 2, <<Dep("b"), Dep("c")>>, <<>>, <<>>, 0, "", ""),
       Pkg("b", 1, <<Dep("d")>>, <<>>, <<>>, 0, "", ""),
       Pkg("b", 2, <<Dep("a")>>, <<>>, <<>>, 0, "", ""),
       Pkg("c", 1, <<Dep("d"), Not("x")>>, <<>>, <<>>, 0, "", ""),
       Pkg("d", 1, <<>>, <<>>, <<>>, 0, "o1", ""),
       Pkg("d", 2, <<Dep("v")>>, <<>>, <<>>, 0, "", ""),
       Pkg("x", 2, <<>>, <<Dep("v")>>, <<>>, 0, "o1", ""),
       Pkg("y", 1, <<Not("b")>>, <<Atom("v", "=", 1)>>, <<>>, 100, "", ""),
       Pkg("y", 3, <<>>, <<Dep("v")>>, <<>>, 200, "", "edge"),
       Pkg("y", BadVersion, <<>>, <<Dep("v")>>, <<>>, 100, "", ""),
       Pkg("t", 1, <<>>, <<>>, <<Dep("w")>>, 0, "", ""),
       Pkg("u", 1, <<>>, <<>>, <<Dep("d"), Dep("x")>>, 0, "", ""),
       Pkg("w", 1, <<Dep("c")>>, <<>>, <<Atom("d", "=", 1)>>, 0, "", "") >>

\* the atoms of /etc/apk/world
TopAtoms == { Dep("a"), Dep("b"), Atom("b", "<", 2), Dep("c"), Dep("d"), Dep("x"), Not("x") }

\* the atoms ResolvePackage is called with
ResolveAtoms == { Dep("v"), Dep("a"), Atom("b", "<", 2), Atom("d", ">", 1) }

\* the names of the catalogue in the order of Go's < on strings
Alphabet == <<"a", "b", "c", "d", "t", "u", "v", "w", "x", "y">>
Rank(s) == CHOOSE i \in DOMAIN Alphabet : Alphabet[i] = s
StrLess(s, t) == Rank(s) < Rank(t)

(***************************************************************************)
(* Go maps as functions.                                                   *)
(***************************************************************************)
EmptyMap == [k \in {} |-> NoPkg]
Has(m, k) == k \in DOMAIN m
Put(m, k, v) == [x \in DOMAIN m \cup {k} |-> IF x = k THEN v ELSE m[x]]

SeqToSet(s) == {s[i] : i \in DOMAIN s}

Max(S) == CHOOSE x \in S : \A y \in S : y <= x

(***************************************************************************)
(* filterPackages: keeps the candidates that satisfy the version           *)
(* constraint and the pin rule.  mode "prefer" is withPreferPin (keep the  *)
(* pin matches if any exist and the pin is not empty), mode "allow" is     *)
(* withAllowPin (drop a candidate pinned to another repository).  The      *)
(* option withInstalledPackage has no described effect and gets none.      *)
(***************************************************************************)
filterPackages(pkgs, version, compare, mode, pin) ==
    LET versionOK(p) == compare = "" \/
                        (parseVersionOK(p.version) /\ parseVersionOK(version)
                         /\ satisfies(compare, p.version, version))
        byVersion == SelectSeq(pkgs, versionOK)
        pinMatch(p) == p.pinnedName = pin
        allowed(p) == p.pinnedName = "" \/ p.pinnedName = pin
    IN  IF mode = "allow" THEN SelectSeq(byVersion, allowed)
        ELSE IF pin # "" /\ \E i \in DOMAIN byVersion : pinMatch(byVersion[i])
             THEN SelectSeq(byVersion, pinMatch)
             ELSE byVersion

(***************************************************************************)
(* getDepVersionForName: the version under which pkg provides name.        *)
(***************************************************************************)
getDepVersionForName(pkg, name) ==
    IF name = "" \/ name = pkg.name THEN pkg.version
    ELSE LET hits == {i \in DOMAIN pkg.provides : pkg.provides[i].name = name}
         IN  IF hits = {} THEN NoVersion
             ELSE LET prov == pkg.provides[CHOOSE i \in hits : \A j \in hits : i <= j]
                  IN  IF prov.ver = NoVersion THEN pkg.version ELSE prov.ver

\* existingOrigins of sortPackages: the non-empty origins of the existing packages
existingOriginsOf(existing) == {existing[k].origin : k \in DOMAIN existing} \ {""}

\* the comparison function handed to sort.Slice by sortPackages
LessNoPriority(pi, pj, compare, name, existing, pin) ==
    LET iVersionStr == getDepVersionForName(pi, name)
        jVersionStr == getDepVersionForName(pj, name)
        iExact == Has(existing, pi.name) /\ existing[pi.name].version = pi.version
        jExact == Has(existing, pj.name) /\ existing[pj.name].version = pj.version
        iOriginMatched == pi.origin \in existingOriginsOf(existing)
        jOriginMatched == pj.origin \in existingOriginsOf(existing)
        byPkgVersion ==
            IF iVersionStr # pi.version \/ jVersionStr # pj.version
            THEN IF ~parseVersionOK(pi.version) \/ ~parseVersionOK(pj.version) THEN "false"
                 ELSE compareVersions(pi.version, pj.version)
            ELSE "equal"
    IN  IF compare # NoPkg /\ pi.uri = compare.uri /\ pj.uri # compare.uri THEN TRUE
        ELSE IF compare # NoPkg /\ pj.uri = compare.uri /\ pi.uri # compare.uri THEN FALSE
        ELSE IF compare # NoPkg /\ pi.origin = compare.origin /\ pj.origin # compare.origin THEN TRUE
        ELSE IF compare # NoPkg /\ pj.origin = compare.origin /\ pi.origin # compare.origin THEN FALSE
        ELSE IF iExact /\ ~jExact THEN TRUE
        ELSE IF jExact /\ ~iExact THEN FALSE
        ELSE IF iOriginMatched /\ ~jOriginMatched THEN TRUE
        ELSE IF jOriginMatched /\ ~iOriginMatched THEN FALSE
        ELSE IF pi.pinnedName = pin /\ pj.pinnedName # pin THEN TRUE
        ELSE IF pi.pinnedName # pin /\ pj.pinnedName = pin THEN FALSE
        ELSE IF ~parseVersionOK(iVersionStr) THEN FALSE
        ELSE IF ~parseVersionOK(jVersionStr) THEN FALSE
        ELSE IF compareVersions(iVersionStr, jVersionStr) # "equal"
             THEN compareVersions(iVersionStr, jVersionStr) = "greater"
        ELSE IF byPkgVersion = "false" THEN FALSE
        ELSE IF byPkgVersion # "equal" THEN byPkgVersion = "greater"
        ELSE StrLess(pi.name, pj.name)

Less(pi, pj, compare, name, existing, pin) ==
    LET iVersionStr == getDepVersionForName(pi, name)
        jVersionStr == getDepVersionForName(pj, name)
        iExact == Has(existing, pi.name) /\ existing[pi.name].version = pi.version
        jExact == Has(existing, pj.name) /\ existing[pj.name].version = pj.version
        iOriginMatched == pi.origin \in existingOriginsOf(existing)
        jOriginMatched == pj.origin \in existingOriginsOf(existing)
        byPkgVersion ==
            IF iVersionStr # pi.version \/ jVersionStr # pj.version
            THEN IF ~parseVersionOK(pi.version) \/ ~parseVersionOK(pj.version) THEN "false"
                 ELSE compareVersions(pi.version, pj.version)
            ELSE "equal"
    IN  IF compare # NoPkg /\ pi.uri = compare.uri /\ pj.uri # compare.uri THEN TRUE
        ELSE IF compare # NoPkg /\ pj.uri = compare.uri /\ pi.uri # compare.uri THEN FALSE
        ELSE IF compare # NoPkg /\ pi.origin = compare.origin /\ pj.origin # compare.origin THEN TRUE
        ELSE IF compare # NoPkg /\ pj.origin = compare.origin /\ pi.origin # compare.origin THEN FALSE
        ELSE IF iExact /\ ~jExact THEN TRUE
        ELSE IF jExact /\ ~iExact THEN FALSE
        ELSE IF iOriginMatched /\ ~jOriginMatched THEN TRUE
        ELSE IF jOriginMatched /\ ~iOriginMatched THEN FALSE
        ELSE IF pi.pinnedName = pin /\ pj.pinnedName # pin THEN TRUE
        ELSE IF pi.pinnedName # pin /\ pj.pinnedName = pin THEN FALSE
        ELSE IF pi.priority # pj.priority THEN pi.priority > pj.priority
        ELSE IF ~parseVersionOK(iVersionStr) THEN FALSE
        ELSE IF ~parseVersionOK(jVersionStr) THEN FALSE
        ELSE IF compareVersions(iVersionStr, jVersionStr) # "equal"
             THEN compareVersions(iVersionStr, jVersionStr) = "greater"
        ELSE IF byPkgVersion = "false" THEN FALSE
        ELSE IF byPkgVersion # "equal" THEN byPkgVersion = "greater"
        ELSE StrLess(pi.name, pj.name)

(***************************************************************************)
(* sort.Slice on a slice shorter than 7 elements is an insertion sort:     *)
(* element i moves towards the front while it is less than its left        *)
(* neighbour.                                                              *)
(***************************************************************************)
insertSorted(sorted, x, compare, name, existing, pin) ==
    LET stop == Max({0} \cup {j \in DOMAIN sorted : ~Less(x, sorted[j], compare, name, existing, pin)})
    IN  SubSeq(sorted, 1, stop) \o <<x>> \o SubSeq(sorted, stop + 1, Len(sorted))

RECURSIVE sortFrom(_, _, _, _, _, _, _)
sortFrom(pkgs, i, sorted, compare, name, existing, pin) ==
    IF i > Len(pkgs) THEN sorted
    ELSE sortFrom(pkgs, i + 1, insertSorted(sorted, pkgs[i], compare, name, existing, pin),
                  compare, name, existing, pin)

sortPackages(pkgs, compare, name, existing, pin) ==
    sortFrom(pkgs, 1, <<>>, compare, name, existing, pin)

(***************************************************************************)
(* NewPkgResolver.  order is the order in which the range over pkgNameMap  *)
(* yields the names whose packages have provides (Go leaves it open).      *)
(***************************************************************************)
RECURSIVE Flatten(_)
Flatten(ss) == IF ss = <<>> THEN <<>> ELSE Head(ss) \o Flatten(Tail(ss))

byName(idx, n) == SelectSeq(idx, LAMBDA p : p.name = n)

\* the (provided name, package) pairs in the order the second loop appends them
provideEntries(idx, order) ==
    Flatten([k \in DOMAIN order |->
        Flatten([i \in DOMAIN byName(idx, order[k]) |->
            [j \in DOMAIN byName(idx, order[k])[i].provides |->
                [name |-> resolvePackageNameVersionPin(byName(idx, order[k])[i].provides[j]).name,
                 pkg |-> byName(idx, order[k])[i]]]])])

pkgsOf(entries, n) ==
    LET hit == SelectSeq(entries, LAMBDA e : e.name = n)
    IN  [i \in DOMAIN hit |-> hit[i].pkg]

pkgProvidesMapOf(idx, order) ==
    LET entries == provideEntries(idx, order)
    IN  [n \in {entries[i].name : i \in DOMAIN entries} |-> pkgsOf(entries, n)]

\* lines 219-223 alone: the packages by name, without the providers that
\* line 247 adds
pkgNameMapByName(idx, order) ==
    [n \in {idx[i].name : i \in DOMAIN idx} |-> byName(idx, n)]
pkgNameMapOf(idx, order) ==
    LET entries == provideEntries(idx, order)
    IN  [n \in {idx[i].name : i \in DOMAIN idx} \cup {entries[i].name : i \in DOMAIN entries} |->
            byName(idx, n) \o pkgsOf(entries, n)]

installIfMapOf(idx) ==
    LET keys == UNION {SeqToSet(idx[i].installIf) : i \in DOMAIN idx}
    IN  [k \in keys |-> Flatten([i \in DOMAIN idx |->
            [j \in DOMAIN SelectSeq(idx[i].installIf, LAMBDA dep : dep = k) |-> idx[i]]])]

(***************************************************************************)
(* ResolvePackage: the candidates for an atom, best first.                 *)
(***************************************************************************)
ResolvePackage(pkgName) ==
    LET stuff == resolvePackageNameVersionPin(pkgName)
        name == stuff.name
    IN  IF Has(nameMap, name)
        THEN LET pkgs == filterPackages(nameMap[name], stuff.version, stuff.dep, "prefer", stuff.pin)
             IN  IF pkgs = <<>> THEN [pkgs |-> <<>>, err |-> "notfound", branch |-> "name"]
                 ELSE [pkgs |-> sortPackages(pkgs, NoPkg, name, EmptyMap, stuff.pin),
                       err |-> "", branch |-> "name"]
        ELSE IF ~Has(providesMap, name) \/ providesMap[name] = <<>>
             THEN [pkgs |-> <<>>, err |-> "notfound", branch |-> "none"]
             ELSE [pkgs |-> sortPackages(providesMap[name], NoPkg, name, EmptyMap, ""),
                   err |-> "", branch |-> "provides"]

(***************************************************************************)
(* getPackageDependencies: the depth-first walk.  existing is the map the  *)
(* caller passes by reference; the walk returns it as it left it.  entered *)
(* is not program state: it records the packages whose dependency loop ran.*)
(***************************************************************************)
\* line 484: a negative atom goes to the conflicts
AddConflictDropped(conflicts, dep) == conflicts
AddConflict(conflicts, dep) == Append(conflicts, StripNeg(dep))

myProvidesCovers(pkg, dep) ==
    LET stuff == resolvePackageNameVersionPin(dep)
    IN  \E i \in DOMAIN pkg.provides :
            \/ resolvePackageNameVersionPin(pkg.provides[i]).name = stuff.name
            \/ pkg.provides[i] = dep

selfFulfills(pkg, dep, allowSelfFulfill) ==
    LET stuff == resolvePackageNameVersionPin(dep)
    IN  /\ allowSelfFulfill
        /\ pkg.name = stuff.name
        /\ parseVersionOK(pkg.version)
        /\ (stuff.dep # "" => parseVersionOK(stuff.version))
        /\ satisfies(stuff.dep, pkg.version, stuff.version)

pinAllowed(provider, allowPin) == provider.pinnedName = "" \/ provider.pinnedName = allowPin

\* lines 521-525: no package is named dep and none provides it
notFoundSkipped(pkg, dep) == [kind |-> "skip", pkg |-> NoPkg]
notFound(pkg, dep) == [kind |-> "err", pkg |-> NoPkg]

\* lines 514-560: the package chosen for dep, or why there is none
chooseDependency(pkg, dep, allowPin, existing) ==
    LET stuff == resolvePackageNameVersionPin(dep)
        name == stuff.name
    IN  IF Has(nameMap, name)
        THEN LET pkgs == filterPackages(nameMap[name], stuff.version, stuff.dep, "allow", allowPin)
             IN  IF pkgs = <<>> THEN [kind |-> "err", pkg |-> NoPkg]
                 ELSE [kind |-> "pkg", pkg |-> sortPackages(pkgs, NoPkg, name, existing, "")[1]]
        ELSE IF ~Has(providesMap, name) \/ providesMap[name] = <<>>
             THEN notFound(pkg, dep)
             ELSE LET initialProviders == providesMap[name]
                      isSelf == \E i \in DOMAIN initialProviders :
                                    /\ pinAllowed(initialProviders[i], allowPin)
                                    /\ initialProviders[i].name = pkg.name
                      providers == SelectSeq(initialProviders, LAMBDA q : pinAllowed(q, allowPin))
                  IN  IF isSelf THEN [kind |-> "skip", pkg |-> NoPkg]
                      ELSE IF providers = <<>> THEN [kind |-> "panic", pkg |-> NoPkg]
                      ELSE [kind |-> "pkg", pkg |-> sortPackages(providers, pkg, name, existing, "")[1]]

RECURSIVE putAll(_, _)
putAll(existing, deps) ==
    IF deps = <<>> THEN existing
    ELSE putAll(Put(existing, Head(deps).name, Head(deps)), Tail(deps))

\* lines 573-576: children first, then the dependency itself
appendPostOrder(dependencies, subDeps, depPkg) == (dependencies \o subDeps) \o <<depPkg>>

RECURSIVE getPackageDependencies(_, _, _, _, _), walkDeps(_, _, _, _, _, _)
RECURSIVE walkChosen(_, _, _, _, _, _, _), walkSub(_, _, _, _, _, _, _, _)
getPackageDependencies(pkg, allowPin, allowSelfFulfill, parents, existing) ==
    IF pkg.name \in parents
    THEN [deps |-> <<>>, conflicts |-> <<>>, err |-> "", existing |-> existing, entered |-> {}]
    ELSE walkDeps(pkg, allowPin, allowSelfFulfill, parents, 1,
                  [deps |-> <<>>, conflicts |-> <<>>, err |-> "", existing |-> existing,
                   entered |-> {pkg}])

\* lines 477-513: the loop over pkg.deps from position i on
walkDeps(pkg, allowPin, allowSelfFulfill, parents, i, acc) ==
    IF i > Len(pkg.deps) THEN acc
    ELSE IF pkg.deps[i].neg
    THEN walkDeps(pkg, allowPin, allowSelfFulfill, parents, i + 1,
                  [acc EXCEPT !.conflicts = AddConflict(acc.conflicts, pkg.deps[i])])
    ELSE IF myProvidesCovers(pkg, pkg.deps[i]) \/ selfFulfills(pkg, pkg.deps[i], allowSelfFulfill)
    THEN walkDeps(pkg, allowPin, allowSelfFulfill, parents, i + 1, acc)
    ELSE walkChosen(pkg, allowPin, allowSelfFulfill, parents, i, acc,
                    chooseDependency(pkg, pkg.deps[i], allowPin, acc.existing))

\* lines 514-571: choice is the outcome of the search for the package of
\* pkg.deps[i]
walkChosen(pkg, allowPin, allowSelfFulfill, parents, i, acc, choice) ==
    IF choice.kind = "skip"
    THEN walkDeps(pkg, allowPin, allowSelfFulfill, parents, i + 1, acc)
    ELSE IF choice.kind # "pkg"
    THEN [deps |-> <<>>, conflicts |-> <<>>,
          err |-> IF choice.kind = "panic" THEN "panic" ELSE "notfound",
          existing |-> acc.existing, entered |-> acc.entered]
    ELSE walkSub(pkg, allowPin, allowSelfFulfill, parents, i, acc, choice,
                 getPackageDependencies(choice.pkg, allowPin, TRUE,
                                        parents \cup {pkg.name}, acc.existing))

\* lines 571-580: sub is what the recursive call for choice.pkg returned
walkSub(pkg, allowPin, allowSelfFulfill, parents, i, acc, choice, sub) ==
    IF sub.err # ""
    THEN [deps |-> <<>>, conflicts |-> <<>>, err |-> sub.err, existing |-> sub.existing,
          entered |-> acc.entered \cup sub.entered]
    ELSE walkDeps(pkg, allowPin, allowSelfFulfill, parents, i + 1,
                  [deps |-> appendPostOrder(acc.deps, sub.deps, choice.pkg),
                   conflicts |-> acc.conflicts \o sub.conflicts,
                   err |-> "",
                   existing |-> putAll(sub.existing, sub.deps),
                   entered |-> acc.entered \cup sub.entered])

(***************************************************************************)
(* GetPackageWithDependencies.                                             *)
(***************************************************************************)
\* lines 352-360: keep the first occurrence of each name
RECURSIVE dedupeByName(_, _, _)
dedupeByName(deps, dependencies, added) ==
    IF deps = <<>> THEN [dependencies |-> dependencies, added |-> added]
    ELSE IF Has(added, Head(deps).name)
         THEN dedupeByName(Tail(deps), dependencies, added)
         ELSE dedupeByName(Tail(deps), Append(dependencies, Head(deps)),
                           Put(added, Head(deps).name, Head(deps)))

\* lines 363-366: the install_if candidates the chosen package dep triggers
hasTriggers(dep, depPkg) ==
    Has(installIfMap, Dep(dep)) \/ Has(installIfMap, Atom(dep, "=", depPkg.version))

triggersOf(dep, depPkg) ==
    IF Has(installIfMap, Dep(dep)) THEN installIfMap[Dep(dep)]
    ELSE installIfMap[Atom(dep, "=", depPkg.version)]

\* lines 373-387: subDep is matched by the added packages
installIfMatched(subDep, added) ==
    LET stuff == resolvePackageNameVersionPin(subDep)
    IN  \/ subDep = Dep(stuff.name) /\ Has(added, stuff.name)
        \/ Has(added, stuff.name) /\ added[stuff.name].version = stuff.version

\* lines 388-394: every install_if atom of the candidate matched
someInstallIfMet(installIfPkg, added) ==
    \E k \in DOMAIN installIfPkg.installIf : installIfMatched(installIfPkg.installIf[k], added)
allInstallIfMet(installIfPkg, added) ==
    \A k \in DOMAIN installIfPkg.installIf : installIfMatched(installIfPkg.installIf[k], added)

\* lines 371-395 for one key of added
RECURSIVE applyTriggers(_, _)
applyTriggers(list, st) ==
    IF list = <<>> THEN st
    ELSE LET installIfPkg == Head(list) IN
         IF allInstallIfMet(installIfPkg, st.added) /\ ~Has(st.added, installIfPkg.name)
         THEN applyTriggers(Tail(list),
                  [dependencies |-> Append(st.dependencies, installIfPkg),
                   added |-> Put(st.added, installIfPkg.name, installIfPkg)])
         ELSE applyTriggers(Tail(list), st)

(***************************************************************************)
(* lines 361-396: the range over the map added.  Go leaves the order of    *)
(* the keys open, and a key added during the range may be produced or      *)
(* skipped; the operator is the set of the dependency lists the loop can   *)
(* end with.  A key without install_if candidates changes nothing, so the  *)
(* choice is among the keys that have some.                                *)
(***************************************************************************)
RECURSIVE installIfPass(_, _, _)
installIfPass(st, visited, initial) ==
    LET pending == {k \in DOMAIN st.added \ visited : hasTriggers(k, st.added[k])}
    IN  (IF pending \cap initial = {} THEN {st.dependencies} ELSE {})
        \cup UNION { installIfPass(applyTriggers(triggersOf(k, st.added[k]), st),
                                   visited \cup {k}, initial) : k \in pending }

\* lines 331-335: the walk writes to localExisting, a map of its own, so the
\* map of the caller is after the call what it was before
existingAfterAliased(existing, localExisting) == localExisting
existingAfter(existing, localExisting) == existing

\* lines 351-397: w is what the walk from pkg returned.  existing is the map
\* of the caller after the call, localExisting the map the walk left, chosen
\* the packages the walk selected and selected those left by the removal of
\* duplicates; walked, localExisting, chosen and selected are not results of
\* the function
withDependencies(pkg, existing, w) ==
    IF w.err # ""
    THEN {[pkg |-> NoPkg, deps |-> <<>>, conflicts |-> <<>>, err |-> w.err, walked |-> {},
           existing |-> existingAfter(existing, w.existing),
           localExisting |-> w.existing, selected |-> <<>>, chosen |-> <<>>]}
    ELSE LET st == dedupeByName(w.deps, <<>>, EmptyMap)
         IN  {[pkg |-> pkg, deps |-> d, conflicts |-> w.conflicts, err |-> "",
               walked |-> w.entered,
               existing |-> existingAfter(existing, w.existing),
               localExisting |-> w.existing, selected |-> st.dependencies,
               chosen |-> w.deps] :
                 d \in installIfPass(st, {}, DOMAIN st.added)}

\* lines 330-350: the package of pkgName and the walk from it
GetPackageWithDependencies(pkgName, existing) ==
    LET r == ResolvePackage(pkgName) IN
    IF r.err # "" \/ r.pkgs = <<>>
    THEN {[pkg |-> NoPkg, deps |-> <<>>, conflicts |-> <<>>, err |-> "notfound", walked |-> {},
           existing |-> existing, localExisting |-> existing, selected |-> <<>>,
           chosen |-> <<>>]}
    ELSE withDependencies(r.pkgs[1], existing,
                          getPackageDependencies(r.pkgs[1],
                                                 resolvePackageNameVersionPin(pkgName).pin,
                                                 TRUE, {}, existing))

(***************************************************************************)
(* GetPackagesWithDependencies.                                            *)
(***************************************************************************)
\* uniqify: the list without its duplicates, first occurrences kept
RECURSIVE uniqify(_)
uniqify(s) ==
    IF s = <<>> THEN <<>>
    ELSE LET front == uniqify(SubSeq(s, 1, Len(s) - 1))
             last == s[Len(s)]
         IN  IF last \in SeqToSet(front) THEN front ELSE Append(front, last)

\* lines 270-286: the explicitly named packages
RECURSIVE firstPass(_, _, _, _)
firstPass(pkgs, i, dependenciesMap, conflicts) ==
    IF i > Len(pkgs) THEN [err |-> "", dependenciesMap |-> dependenciesMap, conflicts |-> conflicts]
    ELSE IF pkgs[i].neg
    THEN firstPass(pkgs, i + 1, dependenciesMap, AddConflict(conflicts, pkgs[i]))
    ELSE LET r == ResolvePackage(pkgs[i]) IN
         IF r.err # "" \/ r.pkgs = <<>>
         THEN [err |-> "notfound", dependenciesMap |-> dependenciesMap, conflicts |-> conflicts]
         ELSE firstPass(pkgs, i + 1, Put(dependenciesMap, r.pkgs[1].name, r.pkgs[1]), conflicts)

\* lines 301-304 and 309-312: a package joins toInstall once per name
trackInstallAlways(st, dep) ==
    [toInstall |-> Append(st.toInstall, dep),
     installTracked |-> st.installTracked \cup {dep.name},
     dependenciesMap |-> IF Has(st.dependenciesMap, dep.name) THEN st.dependenciesMap
                         ELSE Put(st.dependenciesMap, dep.name, dep)]
trackInstall(st, dep) ==
    [toInstall |-> IF dep.name \in st.installTracked THEN st.toInstall ELSE Append(st.toInstall, dep),
     installTracked |-> st.installTracked \cup {dep.name},
     dependenciesMap |-> IF Has(st.dependenciesMap, dep.name) THEN st.dependenciesMap
                         ELSE Put(st.dependenciesMap, dep.name, dep)]

RECURSIVE trackAll(_, _)
trackAll(st, deps) ==
    IF deps = <<>> THEN st ELSE trackAll(trackInstall(st, Head(deps)), Tail(deps))

\* one call of GetPackageWithDependencies: dependenciesMap before and after
\* it, the map the walk of the call left, the package of the call, the
\* packages its walk selected and its dependencies before and after the
\* install_if pass
mapsOf(before, o) ==
    [before |-> before, after |-> o.existing, localExisting |-> o.localExisting,
     selected |-> o.selected, deps |-> o.deps, pkg |-> o.pkg, chosen |-> o.chosen]

\* lines 288-317: the dependencies of each named package; the set of the outcomes
\* walked and maps are not program state: they record the packages the walks
\* entered and the calls of GetPackageWithDependencies
RECURSIVE secondPass(_, _, _, _, _, _)
secondPass(pkgs, i, st, conflicts, walked, maps) ==
    IF i > Len(pkgs)
    THEN {[toInstall |-> st.toInstall, conflicts |-> uniqify(conflicts), err |-> "",
           walked |-> walked, maps |-> maps]}
    ELSE IF pkgs[i].neg
    THEN secondPass(pkgs, i + 1, st, AddConflict(conflicts, pkgs[i]), walked, maps)
    ELSE UNION { IF o.err # ""
                 THEN {[toInstall |-> <<>>, conflicts |-> <<>>, err |-> o.err, walked |-> {},
                        maps |-> Append(maps, mapsOf(st.dependenciesMap, o))]}
                 ELSE secondPass(pkgs, i + 1,
                                 trackInstall(trackAll([st EXCEPT !.dependenciesMap = o.existing],
                                                       o.deps), o.pkg),
                                 conflicts \o o.conflicts, walked \cup o.walked,
                                 Append(maps, mapsOf(st.dependenciesMap, o)))
                 : o \in GetPackageWithDependencies(pkgs[i], st.dependenciesMap) }

GetPackagesWithDependencies(pkgs) ==
    LET first == firstPass(pkgs, 1, EmptyMap, <<>>) IN
    IF first.err # ""
    THEN {[toInstall |-> <<>>, conflicts |-> <<>>, err |-> first.err, walked |-> {},
           maps |-> <<>>]}
    ELSE secondPass(pkgs, 1,
                    [toInstall |-> <<>>, installTracked |-> {},
                     dependenciesMap |-> first.dependenciesMap],
                    first.conflicts, {}, <<>>)

(***************************************************************************)
(* The resolver as a state machine.                                        *)
(***************************************************************************)
Perms(S) == {f \in [1..Cardinality(S) -> S] : \A i, j \in 1..Cardinality(S) : f[i] = f[j] => i = j}

subIndex(S) == SelectSeq([i \in DOMAIN Catalogue |-> IF i \in S THEN Catalogue[i] ELSE NoPkg],
                         LAMBDA p : p # NoPkg)

AtomLists == UNION {[1..n -> TopAtoms] : n \in 0..MaxAtoms}

NoResult == [atom |-> Dep(""), pkgs |-> <<>>, err |-> "none", branch |-> "none"]

ResolverInit ==
    /\ \E S \in SUBSET (DOMAIN Catalogue) :
           /\ Cardinality(S) <= MaxIndex
           /\ indexes = subIndex(S)
    /\ packages \in AtomLists
    /\ pc = "new"
    /\ nameMap = EmptyMap
    /\ providesMap = EmptyMap
    /\ installIfMap = EmptyMap
    /\ runs = <<>>
    /\ resolved = NoResult

providingNames(idx) == {idx[i].name : i \in {j \in DOMAIN idx : idx[j].provides # <<>>}}

NewPkgResolver ==
    /\ pc = "new"
    /\ Len(runs) < MaxRuns
    /\ \E order \in Perms(providingNames(indexes)) :
           /\ nameMap' = pkgNameMapOf(indexes, order)
           /\ providesMap' = pkgProvidesMapOf(indexes, order)
    /\ installIfMap' = installIfMapOf(indexes)
    /\ pc' = "ready"
    /\ UNCHANGED <<indexes, packages, runs, resolved>>
    /\ UNCHANGED <<pipeVars, auxVars>>

DoGetPackagesWithDependencies ==
    /\ pc = "ready"
    /\ \E out \in GetPackagesWithDependencies(packages) :
           runs' = Append(runs, out)
    /\ pc' = "new"
    /\ UNCHANGED <<indexes, packages, nameMap, providesMap, installIfMap, resolved>>
    /\ UNCHANGED <<pipeVars, auxVars>>

DoResolvePackage ==
    /\ pc = "ready"
    /\ runs = <<>>
    /\ \E a \in ResolveAtoms :
           LET r == ResolvePackage(a) IN
           /\ resolved' = [atom |-> a, pkgs |-> r.pkgs, err |-> r.err, branch |-> r.branch]
           /\ providesMap' = IF r.branch = "provides"
                             THEN [providesMap EXCEPT ![a.name] = r.pkgs]
                             ELSE providesMap
    /\ pc' = "resolved"
    /\ UNCHANGED <<indexes, packages, nameMap, installIfMap, runs>>
    /\ UNCHANGED <<pipeVars, auxVars>>

(***************************************************************************)
(* FixateWorld.  allpkgs is the number of packages of the resolved install *)
(* list (they have distinct names); slot i of done and expanded belongs to *)
(* package i.  jobs is runtime.GOMAXPROCS(0).                              *)
(***************************************************************************)
Slots == 1..allpkgs

\* g.SetLimit(jobs + 1); without the call every goroutine of the group runs
noLimit == allpkgs + 1
limit == jobs + 1

\* the consumer's range over done: the slot after slot i
nextSlotSkipping(i) == IF i + 2 <= allpkgs THEN i + 2 ELSE i + 1
nextSlot(i) == i + 1

PipeIdle ==
    /\ allpkgs = 0
    /\ jobs = 1
    /\ conflictInstalled = FALSE
    /\ fpc = "none"
    /\ nextSpawn = 1
    /\ active = 0
    /\ cpc = "none"
    /\ ci = 1
    /\ wpc = <<>>
    /\ done = <<>>
    /\ expanded = <<>>
    /\ cancelled = FALSE
    /\ gerr = FALSE
    /\ installed = {}
    /\ log = <<>>
    /\ result = "none"

ResolverIdle ==
    /\ indexes = <<>>
    /\ packages = <<>>
    /\ pc = "none"
    /\ nameMap = EmptyMap
    /\ providesMap = EmptyMap
    /\ installIfMap = EmptyMap
    /\ runs = <<>>
    /\ resolved = NoResult

(***************************************************************************)
(* The package cache.  A SHA-1 value is a number of Hashes; a control      *)
(* member is named by its hash c and its datahash field is datahashIn(c),  *)
(* a data member is named by its hash.  The directory of one package maps  *)
(* the hexadecimal part of a file name to the member the file holds:       *)
(* ctl[h] is <h>.ctl.tar.gz, sig[h] is <h>.sig.tar.gz, dat[h] is           *)
(* <h>.dat.tar.gz and tar[h] is <h>.dat.tar.                               *)
(***************************************************************************)
Absent == 0
NoHash == 0

Hashes == 1..MaxHash

\* a control member in which controlValue finds no single datahash value
BadCtl == MaxHash + 1

CtlHashes == Hashes \cup {BadCtl}

\* lines 934-945: the datahash field of the control member c
datahashIn(c) == IF c \in Hashes THEN c ELSE NoHash

EmptyCache ==
    [ctl |-> [h \in CtlHashes |-> Absent], sig |-> [h \in CtlHashes |-> Absent],
     dat |-> [h \in Hashes |-> Absent], tar |-> [h \in Hashes |-> Absent]]

NoExp == [ControlFile |-> Absent]

CacheIdle ==
    /\ cacheDir = EmptyCache
    /\ pkgsum = 1
    /\ apk = [ctl |-> 1, dat |-> 1, signed |-> FALSE]
    /\ calls = <<>>

\* etc/apk/repositories does not exist
NoFile == [exists |-> FALSE, data |-> <<>>]

\* the last call: fn is "set" or "get", repos and err what it returned
NoCall == [fn |-> "none", repos |-> <<>>, err |-> ""]

RepoIdle ==
    /\ reposFile = NoFile
    /\ repos = <<>>
    /\ got = NoCall

\* the arguments compare, name, existing and pin of sortPackages
NoArgs == [compare |-> NoPkg, name |-> "", existing |-> EmptyMap, pin |-> ""]

\* sortPackages has not run
NotSorted == [done |-> FALSE, pkgs |-> <<>>]

SortIdle ==
    /\ cand = <<>>
    /\ sortArgs = NoArgs
    /\ sortRes = NotSorted

AuxIdle == CacheIdle /\ RepoIdle /\ SortIdle

\* the state after ResolveWorld returned the install list and the conflicts
PipeInit ==
    /\ ResolverIdle
    /\ AuxIdle
    /\ allpkgs \in 0..MaxPkgs
    /\ jobs \in 1..MaxJobs
    /\ conflictInstalled \in BOOLEAN
    /\ fpc = "conflicts"
    /\ nextSpawn = 1
    /\ active = 0
    /\ cpc = "none"
    /\ ci = 1
    /\ wpc = [i \in Slots |-> "unspawned"]
    /\ done = [i \in Slots |-> FALSE]
    /\ expanded = [i \in Slots |-> FALSE]
    /\ cancelled = FALSE
    /\ gerr = FALSE
    /\ installed \in SUBSET Slots
    /\ log = <<>>
    /\ result = "none"

\* lines 486-494: the loop over conflicts found one that isInstalledPackage
\* reports as installed
conflictIgnored == FALSE
conflictBlocks == conflictInstalled

\* lines 486-494: a conflict that is installed ends the call
CheckConflicts ==
    /\ fpc = "conflicts"
    /\ IF conflictBlocks
       THEN fpc' = "returned" /\ result' = "err"
       ELSE fpc' = "spawnConsumer" /\ result' = result
    /\ UNCHANGED <<allpkgs, jobs, conflictInstalled, nextSpawn, active, cpc, ci, wpc, done,
                   expanded, cancelled, gerr, installed, log>>
    /\ UNCHANGED <<resolverVars, auxVars>>

\* lines 487-490: isInstalledPackage failed for some conflict
CheckConflictsFail ==
    /\ fpc = "conflicts"
    /\ fpc' = "returned"
    /\ result' = "err"
    /\ UNCHANGED <<allpkgs, jobs, conflictInstalled, nextSpawn, active, cpc, ci, wpc, done,
                   expanded, cancelled, gerr, installed, log>>
    /\ UNCHANGED <<resolverVars, auxVars>>

\* line 515: g.Go of the consumer
GoConsumer ==
    /\ fpc = "spawnConsumer"
    /\ active < limit
    /\ active' = active + 1
    /\ cpc' = "select"
    /\ ci' = 1
    /\ fpc' = IF allpkgs = 0 THEN "wait" ELSE "spawn"
    /\ UNCHANGED <<allpkgs, jobs, conflictInstalled, nextSpawn, wpc, done, expanded, cancelled,
                   gerr, installed, log, result>>
    /\ UNCHANGED <<resolverVars, auxVars>>

\* lines 544-558: g.Go of the worker of the next slot; it blocks while the group is full
GoWorker ==
    /\ fpc = "spawn"
    /\ active < limit
    /\ active' = active + 1
    /\ wpc' = [wpc EXCEPT ![nextSpawn] = "expanding"]
    /\ nextSpawn' = nextSpawn + 1
    /\ fpc' = IF nextSpawn = allpkgs THEN "wait" ELSE "spawn"
    /\ UNCHANGED <<allpkgs, jobs, conflictInstalled, cpc, ci, done, expanded, cancelled,
                   gerr, installed, log, result>>
    /\ UNCHANGED <<resolverVars, auxVars>>

\* lines 548-553: expandPackage succeeded and the worker writes expanded[i]
WorkerCloseFirst(i) ==
    /\ wpc[i] = "expanding"
    /\ done' = [done EXCEPT ![i] = TRUE]
    /\ wpc' = [wpc EXCEPT ![i] = "written"]
    /\ UNCHANGED <<allpkgs, jobs, conflictInstalled, fpc, nextSpawn, active, cpc, ci, expanded,
                   cancelled, gerr, installed, log, result>>
    /\ UNCHANGED <<resolverVars, auxVars>>
WorkerWrite(i) ==
    /\ wpc[i] = "expanding"
    /\ expanded' = [expanded EXCEPT ![i] = TRUE]
    /\ wpc' = [wpc EXCEPT ![i] = "written"]
    /\ UNCHANGED <<allpkgs, jobs, conflictInstalled, fpc, nextSpawn, active, cpc, ci, done,
                   cancelled, gerr, installed, log, result>>
    /\ UNCHANGED <<resolverVars, auxVars>>

\* lines 554-556: the worker closes done[i] and returns
WorkerDone(i) ==
    /\ wpc[i] = "written"
    /\ done' = [done EXCEPT ![i] = TRUE]
    /\ wpc' = [wpc EXCEPT ![i] = "done"]
    /\ active' = active - 1
    /\ log' = Append(log, [ev |-> "expanded", slot |-> i, exp |-> expanded[i], cancelled |-> cancelled])
    /\ UNCHANGED <<allpkgs, jobs, conflictInstalled, fpc, nextSpawn, cpc, ci, expanded, cancelled,
                   gerr, installed, result>>
    /\ UNCHANGED <<resolverVars, auxVars>>

\* lines 549-551: expandPackage failed; the first error of the group cancels gctx
WorkerFailNoCancel(i) ==
    /\ wpc[i] = "expanding"
    /\ wpc' = [wpc EXCEPT ![i] = "failed"]
    /\ active' = active - 1
    /\ gerr' = TRUE
    /\ UNCHANGED <<allpkgs, jobs, conflictInstalled, fpc, nextSpawn, cpc, ci, done, expanded,
                   cancelled, installed, log, result>>
    /\ UNCHANGED <<resolverVars, auxVars>>
WorkerFail(i) ==
    /\ wpc[i] = "expanding"
    /\ wpc' = [wpc EXCEPT ![i] = "failed"]
    /\ active' = active - 1
    /\ gerr' = TRUE
    /\ cancelled' = TRUE
    /\ UNCHANGED <<allpkgs, jobs, conflictInstalled, fpc, nextSpawn, cpc, ci, done, expanded,
                   installed, log, result>>
    /\ UNCHANGED <<resolverVars, auxVars>>

\* line 539: the range over done is exhausted
ConsumerReturn ==
    /\ cpc = "select"
    /\ ci > allpkgs
    /\ cpc' = "returned"
    /\ active' = active - 1
    /\ UNCHANGED <<allpkgs, jobs, conflictInstalled, fpc, nextSpawn, ci, wpc, done, expanded,
                   cancelled, gerr, installed, log, result>>
    /\ UNCHANGED <<resolverVars, auxVars>>

\* lines 518-519: the select takes <-gctx.Done()
ConsumerCancelled ==
    /\ cpc = "select"
    /\ ci <= allpkgs
    /\ cancelled
    /\ cpc' = "returned"
    /\ active' = active - 1
    /\ gerr' = TRUE
    /\ UNCHANGED <<allpkgs, jobs, conflictInstalled, fpc, nextSpawn, ci, wpc, done, expanded,
                   cancelled, installed, log, result>>
    /\ UNCHANGED <<resolverVars, auxVars>>

\* lines 520-531: the select takes <-ch and the package is installed already
ConsumerSkip ==
    /\ cpc = "select"
    /\ ci <= allpkgs
    /\ done[ci]
    /\ ci \in installed
    /\ log' = Append(log, [ev |-> "skip", slot |-> ci, exp |-> expanded[ci], cancelled |-> cancelled])
    /\ ci' = nextSlot(ci)
    /\ UNCHANGED <<allpkgs, jobs, conflictInstalled, fpc, nextSpawn, active, cpc, wpc, done,
                   expanded, cancelled, gerr, installed, result>>
    /\ UNCHANGED <<resolverVars, auxVars>>

\* lines 524-527: the select takes <-ch and isInstalledPackage fails
ConsumerCheckFail ==
    /\ cpc = "select"
    /\ ci <= allpkgs
    /\ done[ci]
    /\ cpc' = "returned"
    /\ active' = active - 1
    /\ gerr' = TRUE
    /\ cancelled' = TRUE
    /\ UNCHANGED <<allpkgs, jobs, conflictInstalled, fpc, nextSpawn, ci, wpc, done, expanded,
                   installed, log, result>>
    /\ UNCHANGED <<resolverVars, auxVars>>

\* lines 520-533: the select takes <-ch and installPackage starts
ConsumerInstall ==
    /\ cpc = "select"
    /\ ci <= allpkgs
    /\ done[ci]
    /\ ci \notin installed
    /\ log' = Append(log, [ev |-> "start", slot |-> ci, exp |-> expanded[ci], cancelled |-> cancelled])
    /\ cpc' = "installing"
    /\ UNCHANGED <<allpkgs, jobs, conflictInstalled, fpc, nextSpawn, active, ci, wpc, done,
                   expanded, cancelled, gerr, installed, result>>
    /\ UNCHANGED <<resolverVars, auxVars>>

\* line 533: installPackage returned nil
InstallDone ==
    /\ cpc = "installing"
    /\ installed' = installed \cup {ci}
    /\ log' = Append(log, [ev |-> "end", slot |-> ci, exp |-> expanded[ci], cancelled |-> cancelled])
    /\ ci' = nextSlot(ci)
    /\ cpc' = "select"
    /\ UNCHANGED <<allpkgs, jobs, conflictInstalled, fpc, nextSpawn, active, wpc, done,
                   expanded, cancelled, gerr, result>>
    /\ UNCHANGED <<resolverVars, auxVars>>

\* lines 533-535: installPackage failed
InstallFail ==
    /\ cpc = "installing"
    /\ cpc' = "returned"
    /\ active' = active - 1
    /\ gerr' = TRUE
    /\ cancelled' = TRUE
    /\ UNCHANGED <<allpkgs, jobs, conflictInstalled, fpc, nextSpawn, ci, wpc, done, expanded,
                   installed, log, result>>
    /\ UNCHANGED <<resolverVars, auxVars>>

\* lines 560-564: the error of g.Wait() is the error of FixateWorld
waitResultNil(err) == "nil"
waitResult(err) == IF err THEN "err" ELSE "nil"

\* lines 560-564: g.Wait() returns once every goroutine of the group has returned
Wait ==
    /\ fpc = "wait"
    /\ active = 0
    /\ fpc' = "returned"
    /\ result' = waitResult(gerr)
    /\ UNCHANGED <<allpkgs, jobs, conflictInstalled, nextSpawn, active, cpc, ci, wpc, done,
                   expanded, cancelled, gerr, installed, log>>
    /\ UNCHANGED <<resolverVars, auxVars>>

(***************************************************************************)
(* expandPackage with a cache: cachedPackage, fetchPackage, ExpandApk and   *)
(* cachePackage for one package.  pkgsum is the checksum of the package in *)
(* the index, apk the archive its URL serves.                              *)
(***************************************************************************)
\* tarfs.New(exp.PackageData) reads the file exp.tarFile
tarfsNew(dir, tarFile) == dir.tar[tarFile] # Absent

\* lines 690-756; control and data are the members that the files named by
\* ControlFile and PackageFile hold
cachedPackageNoStat(dir, chk) ==
    LET ctl == dir.ctl[chk]
        datahash == datahashIn(ctl)
    IN  IF ctl = Absent THEN [err |-> "stat ctl", exp |-> NoExp]
        ELSE IF datahash = NoHash THEN [err |-> "datahash", exp |-> NoExp]
        ELSE [err |-> "",
              exp |-> [ControlFile |-> chk, ControlHash |-> chk,
                       Signed |-> dir.sig[chk] # Absent,
                       PackageFile |-> datahash, PackageHash |-> datahash,
                       tarFile |-> datahash,
                       control |-> ctl, data |-> dir.dat[datahash]]]
cachedPackage(dir, chk) ==
    LET ctl == dir.ctl[chk]
        datahash == datahashIn(ctl)
    IN  IF ctl = Absent THEN [err |-> "stat ctl", exp |-> NoExp]
        ELSE IF datahash = NoHash THEN [err |-> "datahash", exp |-> NoExp]
        ELSE IF dir.dat[datahash] = Absent THEN [err |-> "stat dat", exp |-> NoExp]
        ELSE IF ~tarfsNew(dir, datahash) THEN [err |-> "tarfs", exp |-> NoExp]
        ELSE [err |-> "",
              exp |-> [ControlFile |-> chk, ControlHash |-> chk,
                       Signed |-> dir.sig[chk] # Absent,
                       PackageFile |-> datahash, PackageHash |-> datahash,
                       tarFile |-> datahash,
                       control |-> ctl, data |-> dir.dat[datahash]]]

\* the splitter: the hashes are those of the members of the archive, and the
\* data member must be the one the datahash field of the control member names
ExpandApk(a) ==
    IF datahashIn(a.ctl) # a.dat THEN [err |-> "datahash mismatch", exp |-> NoExp]
    ELSE [err |-> "",
          exp |-> [ControlFile |-> Absent, ControlHash |-> a.ctl, Signed |-> a.signed,
                   PackageFile |-> Absent, PackageHash |-> a.dat, tarFile |-> Absent,
                   control |-> a.ctl, data |-> a.dat]]

\* lines 647-688: the renames of cachePackage; rename number failAt fails
\* (0: none does), the renames before it stay done
cachePackage(dir, exp, failAt) ==
    LET d1 == [dir EXCEPT !.ctl[exp.ControlHash] = exp.control]
        d2 == IF exp.Signed THEN [d1 EXCEPT !.sig[exp.ControlHash] = exp.ControlHash] ELSE d1
        d3 == [d2 EXCEPT !.dat[exp.PackageHash] = exp.data]
        d4 == [d3 EXCEPT !.tar[exp.PackageHash] = exp.data]
    IN  CASE failAt = 1 -> [err |-> "rename", exp |-> NoExp, dir |-> dir]
          [] failAt = 2 -> [err |-> "rename", exp |-> NoExp, dir |-> d1]
          [] failAt = 3 -> [err |-> "rename", exp |-> NoExp, dir |-> d2]
          [] failAt = 4 -> [err |-> "rename", exp |-> NoExp, dir |-> d3]
          [] OTHER -> [err |-> "",
                       exp |-> [exp EXCEPT !.ControlFile = exp.ControlHash,
                                           !.PackageFile = exp.PackageHash,
                                           !.tarFile = exp.PackageHash],
                       dir |-> d4]

\* a cache directory left by earlier use: at most one control file and one
\* data file with its uncompressed mirror, each holding any member
PreCaches ==
    LET ctls == {EmptyCache.ctl} \cup
                {[EmptyCache.ctl EXCEPT ![h] = c] : h \in CtlHashes, c \in CtlHashes}
        dats == {EmptyCache.dat} \cup
                {[EmptyCache.dat EXCEPT ![h] = c] : h \in Hashes, c \in Hashes}
    IN  {[EmptyCache EXCEPT !.ctl = c, !.dat = d, !.tar = d] : c \in ctls, d \in dats}

CacheInit ==
    /\ ResolverIdle
    /\ PipeIdle
    /\ RepoIdle
    /\ SortIdle
    /\ cacheDir \in PreCaches
    /\ pkgsum \in CtlHashes
    /\ apk \in [ctl : CtlHashes, dat : Hashes, signed : BOOLEAN]
    /\ calls = <<>>

Call(hit, fetched, err, exp) == [hit |-> hit, fetched |-> fetched, err |-> err, exp |-> exp]

\* lines 768-772: cache hit
ExpandHit ==
    /\ Len(calls) < MaxExpands
    /\ cachedPackage(cacheDir, pkgsum).err = ""
    /\ calls' = Append(calls, Call(TRUE, FALSE, "", cachedPackage(cacheDir, pkgsum).exp))
    /\ UNCHANGED <<cacheDir, pkgsum, apk>>
    /\ UNCHANGED <<resolverVars, pipeVars, repoVars, sortVars>>

\* lines 774-784: cache miss and fetchPackage fails
ExpandFetchFail ==
    /\ Len(calls) < MaxExpands
    /\ cachedPackage(cacheDir, pkgsum).err # ""
    /\ calls' = Append(calls, Call(FALSE, TRUE, "fetching", NoExp))
    /\ UNCHANGED <<cacheDir, pkgsum, apk>>
    /\ UNCHANGED <<resolverVars, pipeVars, repoVars, sortVars>>

\* lines 774-790: cache miss and ExpandApk fails: the stream is cut or the
\* datahash does not match
ExpandApkFail ==
    /\ Len(calls) < MaxExpands
    /\ cachedPackage(cacheDir, pkgsum).err # ""
    /\ calls' = Append(calls, Call(FALSE, TRUE, "expanding", NoExp))
    /\ UNCHANGED <<cacheDir, pkgsum, apk>>
    /\ UNCHANGED <<resolverVars, pipeVars, repoVars, sortVars>>

\* lines 774-799: cache miss, the archive is fetched and expanded, and a
\* rename of cachePackage fails
ExpandCacheFail ==
    /\ Len(calls) < MaxExpands
    /\ cachedPackage(cacheDir, pkgsum).err # ""
    /\ ExpandApk(apk).err = ""
    /\ \E failAt \in 1..4 :
          /\ failAt = 2 => apk.signed
          /\ cacheDir' = cachePackage(cacheDir, ExpandApk(apk).exp, failAt).dir
    /\ calls' = Append(calls, Call(FALSE, TRUE, "rename", NoExp))
    /\ UNCHANGED <<pkgsum, apk>>
    /\ UNCHANGED <<resolverVars, pipeVars, repoVars, sortVars>>

\* lines 774-799: cache miss, the archive is fetched, expanded and cached
ExpandStored ==
    /\ Len(calls) < MaxExpands
    /\ cachedPackage(cacheDir, pkgsum).err # ""
    /\ ExpandApk(apk).err = ""
    /\ cacheDir' = cachePackage(cacheDir, ExpandApk(apk).exp, 0).dir
    /\ calls' = Append(calls, Call(FALSE, TRUE, "", cachePackage(cacheDir, ExpandApk(apk).exp, 0).exp))
    /\ UNCHANGED <<pkgsum, apk>>
    /\ UNCHANGED <<resolverVars, pipeVars, repoVars, sortVars>>

CacheNext ==
    \/ ExpandHit
    \/ ExpandFetchFail
    \/ ExpandApkFail
    \/ ExpandCacheFail
    \/ ExpandStored

CacheSpec == CacheInit /\ [][CacheNext]_vars

(***************************************************************************)
(* SetRepositories and GetRepositories.  A string is the sequence of its   *)
(* characters; LF is the newline, CR the carriage return, and BIG stands   *)
(* for a run of bufio.MaxScanTokenSize bytes without a newline.            *)
(***************************************************************************)
LF == "LF"
CR == "CR"
BIG == "BIG"

Chars == {"a", CR, BIG}

Strs == UNION {[1..n -> Chars] : n \in 0..MaxStrLen}

RepoLists == UNION {[1..n -> Strs] : n \in 0..MaxRepos}

\* strings.Join
RECURSIVE Join(_, _)
Join(elems, sep) ==
    IF elems = <<>> THEN <<>>
    ELSE IF Len(elems) = 1 THEN elems[1]
    ELSE (elems[1] \o <<sep>>) \o Join(Tail(elems), sep)

\* position of the first c in data, 0 when there is none
IndexByte(data, c) ==
    IF \E i \in DOMAIN data : data[i] = c
    THEN CHOOSE i \in DOMAIN data : data[i] = c /\ \A j \in 1..(i - 1) : data[j] # c
    ELSE 0

\* bufio.ScanLines drops one carriage return at the end of a line
dropCR(line) ==
    IF line # <<>> /\ line[Len(line)] = CR THEN SubSeq(line, 1, Len(line) - 1) ELSE line

\* lines 120-123: the tokens of bufio.Scanner with ScanLines; a line that does
\* not fit the buffer ends the scan, and the error of the scanner is not read
RECURSIVE scan(_)
scan(data) ==
    IF data = <<>> THEN <<>>
    ELSE LET i == IndexByte(data, LF)
             line == IF i = 0 THEN data ELSE SubSeq(data, 1, i - 1)
             rest == IF i = 0 THEN <<>> ELSE SubSeq(data, i + 1, Len(data))
         IN  IF BIG \in SeqToSet(line) THEN <<>>
             ELSE <<dropCR(line)>> \o scan(rest)

\* line 102
reposData(l) == Join(l, LF) \o <<LF>>

RepoInit ==
    /\ ResolverIdle
    /\ PipeIdle
    /\ CacheIdle
    /\ SortIdle
    /\ RepoIdle

\* lines 95-111: the file is written; repos is the list of the last
\* SetRepositories that returned nil
SetRepositories ==
    /\ \E l \in RepoLists :
          /\ Len(l) # 0
          /\ repos' = l
          /\ reposFile' = [exists |-> TRUE, data |-> reposData(l)]
    /\ got' = [fn |-> "set", repos |-> <<>>, err |-> ""]
    /\ UNCHANGED <<resolverVars, pipeVars, cacheVars, sortVars>>

\* lines 98-100: no repository is given
SetRepositoriesEmpty ==
    /\ got' = [fn |-> "set", repos |-> <<>>, err |-> "empty"]
    /\ UNCHANGED <<reposFile, repos>>
    /\ UNCHANGED <<resolverVars, pipeVars, cacheVars, sortVars>>

\* lines 105-108: WriteFile fails and leaves the file as it was or cut short
SetRepositoriesFail ==
    /\ reposFile' \in {reposFile, [exists |-> TRUE, data |-> <<>>]}
    /\ repos' = <<>>
    /\ got' = [fn |-> "set", repos |-> <<>>, err |-> "write"]
    /\ UNCHANGED <<resolverVars, pipeVars, cacheVars, sortVars>>

\* lines 113-125
GetRepositories ==
    /\ reposFile.exists
    /\ got' = [fn |-> "get", repos |-> scan(reposFile.data), err |-> ""]
    /\ UNCHANGED <<reposFile, repos>>
    /\ UNCHANGED <<resolverVars, pipeVars, cacheVars, sortVars>>

\* lines 115-118: the file cannot be opened
GetRepositoriesFail ==
    /\ got' = [fn |-> "get", repos |-> <<>>, err |-> "open"]
    /\ UNCHANGED <<reposFile, repos>>
    /\ UNCHANGED <<resolverVars, pipeVars, cacheVars, sortVars>>

RepoNext ==
    \/ SetRepositories
    \/ SetRepositoriesEmpty
    \/ SetRepositoriesFail
    \/ GetRepositories
    \/ GetRepositoriesFail

RepoSpec == RepoInit /\ [][RepoNext]_vars

(***************************************************************************)
(* sortPackages on its own: the candidates are packages named y or x that  *)
(* provide v, with and without a version that parses.                      *)
(***************************************************************************)
SortPool ==
    { Pkg("y", 1, <<>>, <<Dep("v")>>, <<>>, 100, "", ""),
      Pkg("y", 2, <<>>, <<Dep("v")>>, <<>>, 100, "", ""),
      Pkg("y", BadVersion, <<>>, <<Dep("v")>>, <<>>, 100, "", ""),
      Pkg("x", 2, <<>>, <<Dep("v")>>, <<>>, 0, "o1", ""),
      Pkg("x", 1, <<>>, <<Atom("v", "=", 2)>>, <<>>, 0, "o1", "edge"),
      Pkg("x", BadVersion, <<>>, <<Atom("v", "=", 1)>>, <<>>, 100, "", "") }

\* the lists of up to MaxCand different candidates
CandLists ==
    UNION {{l \in [1..n -> SortPool] : \A i, j \in 1..n : l[i] = l[j] => i = j} : n \in 0..MaxCand}

SortArgs ==
    [compare : {NoPkg, Pkg("x", 2, <<>>, <<Dep("v")>>, <<>>, 0, "o1", ""),
                Pkg("x", 1, <<>>, <<Atom("v", "=", 2)>>, <<>>, 0, "o1", "edge")},
     name : {"", "v", "y"},
     existing : {EmptyMap,
                 Put(EmptyMap, "y", Pkg("y", 1, <<>>, <<Dep("v")>>, <<>>, 100, "", "")),
                 Put(EmptyMap, "x", Pkg("x", 2, <<>>, <<Dep("v")>>, <<>>, 0, "o1", ""))},
     pin : {"", "edge"}]

SortInit ==
    /\ ResolverIdle
    /\ PipeIdle
    /\ CacheIdle
    /\ RepoIdle
    /\ cand \in CandLists
    /\ sortArgs \in SortArgs
    /\ sortRes = NotSorted

\* lines 620-720
DoSortPackages ==
    /\ ~sortRes.done
    /\ sortRes' = [done |-> TRUE,
                   pkgs |-> sortPackages(cand, sortArgs.compare, sortArgs.name,
                                         sortArgs.existing, sortArgs.pin)]
    /\ UNCHANGED <<cand, sortArgs>>
    /\ UNCHANGED <<resolverVars, pipeVars, cacheVars, repoVars>>

SortNext == DoSortPackages

SortSpec == SortInit /\ [][SortNext]_vars

Init == ResolverInit /\ PipeIdle /\ AuxIdle

Next == NewPkgResolver \/ DoGetPackagesWithDependencies

Spec == Init /\ [][Next]_vars

\* a resolver that is asked for single atoms
ResolveInit ==
    /\ ResolverInit
    /\ packages = <<>>
    /\ PipeIdle
    /\ AuxIdle

ResolveNext == NewPkgResolver \/ DoResolvePackage

ResolveSpec == ResolveInit /\ [][ResolveNext]_vars

PipeNext ==
    \/ CheckConflicts
    \/ CheckConflictsFail
    \/ GoConsumer
    \/ GoWorker
    \/ \E i \in Slots : WorkerWrite(i)
    \/ \E i \in Slots : WorkerDone(i)
    \/ \E i \in Slots : WorkerFail(i)
    \/ ConsumerReturn
    \/ ConsumerCancelled
    \/ ConsumerSkip
    \/ ConsumerCheckFail
    \/ ConsumerInstall
    \/ InstallDone
    \/ InstallFail
    \/ Wait

PipeSpec == PipeInit /\ [][PipeNext]_vars

\* the steps of the goroutine that runs FixateWorld, of the consumer and of
\* the worker of slot i
MainStep == CheckConflicts \/ CheckConflictsFail \/ GoConsumer \/ GoWorker \/ Wait

ConsumerStep ==
    \/ ConsumerReturn
    \/ ConsumerCancelled
    \/ ConsumerSkip
    \/ ConsumerCheckFail
    \/ ConsumerInstall
    \/ InstallDone
    \/ InstallFail

WorkerStep(i) == i \in Slots /\ (WorkerWrite(i) \/ WorkerDone(i) \/ WorkerFail(i))

\* the Go scheduler runs every goroutine that can run, and expandPackage and
\* installPackage return
PipeFairness ==
    /\ WF_vars(MainStep)
    /\ WF_vars(ConsumerStep)
    /\ \A i \in 1..MaxPkgs : WF_vars(WorkerStep(i))

PipeFairSpec == PipeSpec /\ PipeFairness

(***************************************************************************)
(* Properties of the resolver.                                             *)
(***************************************************************************)
Successful == {k \in DOMAIN runs : runs[k].err = ""}

\* p has a positive dependency atom on the name of q or on a name q provides
DependsOn(p, q) ==
    /\ p # q
    /\ \E i \in DOMAIN p.deps :
          /\ ~p.deps[i].neg
          /\ \/ p.deps[i].name = q.name
             \/ \E k \in DOMAIN q.provides : q.provides[k].name = p.deps[i].name

\* C1: in the install list of a successful resolve every package stands
\* before every package of the list that depends on it
C1_PostOrder ==
    \A k \in Successful :
        LET l == runs[k].toInstall IN
        \A i, j \in DOMAIN l : DependsOn(l[j], l[i]) => i < j

\* C2: no package appears twice in the install list of a successful resolve
C2_AtMostOnce ==
    \A k \in Successful :
        LET l == runs[k].toInstall IN
        \A i, j \in DOMAIN l : l[i] = l[j] => i = j

\* a resolve that reached one package through two parents, met another through
\* two top-level atoms, and listed at least three packages
C2_Witness ==
    \E k \in Successful :
        LET l == runs[k].toInstall IN
        /\ Len(packages) = 2
        /\ \E i, j, d \in DOMAIN l :
              i # j /\ DependsOn(l[i], l[d]) /\ DependsOn(l[j], l[d])

\* the package p is hit by the conflict entry c
ConflictHits(c, p) ==
    /\ p.name = c.name
    /\ c.cmp = "" \/ satisfies(c.cmp, p.version, c.ver)

\* C3: no entry of the conflict list of a successful resolve hits a package
\* of the install list
C3_NoConflictInstalled ==
    \A k \in Successful :
        \A i \in DOMAIN runs[k].conflicts : \A j \in DOMAIN runs[k].toInstall :
            ~ConflictHits(runs[k].conflicts[i], runs[k].toInstall[j])

\* C4: two resolves of the same atoms on the same indexes return the same
\* install list and the same conflict list
C4_Deterministic ==
    Len(runs) = 2 =>
        /\ runs[1].err = runs[2].err
        /\ runs[1].toInstall = runs[2].toInstall
        /\ runs[1].conflicts = runs[2].conflicts

pkgRefs(l) == [i \in DOMAIN l |-> l[i].name]

\* C6: on the index where a depends on b and b on a, resolving a returns [b, a]
C6_Cycle ==
    (/\ Len(indexes) = 2
     /\ indexes[1].name = "a" /\ pkgRefs(indexes[1].deps) = <<"b">>
     /\ indexes[2].name = "b" /\ pkgRefs(indexes[2].deps) = <<"a">>
     /\ packages = <<Dep("a")>>)
    => \A k \in DOMAIN runs : runs[k].err = "" /\ pkgRefs(runs[k].toInstall) = <<"b", "a">>

\* the install_if atom is satisfied by the package p
InstallIfSatisfiedBy(atom, p) ==
    /\ p.name = atom.name
    /\ atom.cmp = "" \/ satisfies(atom.cmp, p.version, atom.ver)

\* C7: a package whose install_if atoms are all satisfied by packages of the
\* install list is in the install list, after the packages that satisfy them
C7_InstallIfIncluded ==
    \A k \in Successful :
        LET l == runs[k].toInstall IN
        \A t \in DOMAIN indexes :
            LET T == indexes[t] IN
            (/\ T.installIf # <<>>
             /\ \A a \in DOMAIN T.installIf :
                   \E i \in DOMAIN l : InstallIfSatisfiedBy(T.installIf[a], l[i]))
            => \E j \in DOMAIN l :
                  /\ l[j] = T
                  /\ \A a \in DOMAIN T.installIf : \A i \in DOMAIN l :
                        InstallIfSatisfiedBy(T.installIf[a], l[i]) => i < j

\* p and q are tied on the pin criterion of the sort
PinTied(p, q, pin) == (p.pinnedName = pin) <=> (q.pinnedName = pin)

negatives(atoms) == {StripNeg(atoms[i]) : i \in {j \in DOMAIN atoms : atoms[j].neg}}

\* C9: the conflict list of a successful resolve holds, once each, the negative
\* atoms of the top level and of the dependencies of the packages the walk
\* visited, and nothing else
C9_ConflictsExact ==
    \A k \in Successful :
        LET c == runs[k].conflicts IN
        /\ SeqToSet(c) = negatives(packages) \cup UNION {negatives(p.deps) : p \in runs[k].walked}
        /\ \A i, j \in DOMAIN c : c[i] = c[j] => i = j

\* a resolve with a negative atom at top level and another one in a package
\* that the walk reached as a dependency
C9_Witness ==
    \E k \in Successful :
        /\ negatives(packages) # {}
        /\ \E p \in runs[k].walked :
              /\ negatives(p.deps) # {}
              /\ negatives(p.deps) \cap negatives(packages) = {}
              /\ \A i \in DOMAIN packages : packages[i].name # p.name
        /\ Len(runs[k].conflicts) >= 2

(***************************************************************************)
(* Properties of FixateWorld.                                              *)
(***************************************************************************)
\* C5: when the consumer turns to a package (installs or skips it), every
\* package before it in the resolver's order is installed or skipped already
C5_InstallOrder ==
    \A q \in DOMAIN log :
        log[q].ev \in {"start", "skip"} =>
            \A i \in 1..(log[q].slot - 1) :
                \E p \in 1..(q - 1) : log[p].slot = i /\ log[p].ev \in {"end", "skip"}

\* slot 2 was expanded before slot 1 and both packages were installed
C5_Witness ==
    \E p1, p2, q1, q2 \in DOMAIN log :
        /\ log[p2].ev = "expanded" /\ log[p2].slot = 2
        /\ log[p1].ev = "expanded" /\ log[p1].slot = 1
        /\ p2 < p1
        /\ log[q1].ev = "end" /\ log[q1].slot = 1
        /\ log[q2].ev = "end" /\ log[q2].slot = 2

\* C10: the consumer starts no package install once gctx is cancelled
C10_NoInstallAfterCancel ==
    \A q \in DOMAIN log : log[q].ev = "start" => ~log[q].cancelled

\* C11: when a conflict of the resolve is installed, FixateWorld returns an
\* error and in that call no worker was started, nothing was expanded and no
\* install was started or skipped
C11_ConflictStops ==
    (conflictInstalled /\ fpc = "returned") =>
        /\ result = "err"
        /\ log = <<>>
        /\ cpc = "none"
        /\ \A i \in Slots : wpc[i] = "unspawned" /\ ~done[i] /\ ~expanded[i]

\* FixateWorld returned on an installed conflict with packages left to install
C11_Witness ==
    /\ conflictInstalled
    /\ fpc = "returned"
    /\ result = "err"
    /\ allpkgs >= 2
    /\ installed # Slots

(***************************************************************************)
(* Properties of the cache.                                                *)
(***************************************************************************)
\* C12: every cache hit serves a control file and a data file whose content
\* hashes to the name of the file
C12_HitMatchesName ==
    \A k \in DOMAIN calls :
        calls[k].hit =>
            /\ calls[k].exp.control = calls[k].exp.ControlFile
            /\ calls[k].exp.data = calls[k].exp.PackageFile

\* C13: after an expandPackage that succeeded, the next expandPackage of the
\* same package with the same index and archive does not call fetchPackage
C13_SecondRunNoFetch ==
    \A k \in DOMAIN calls :
        (k > 1 /\ calls[k - 1].err = "") => ~calls[k].fetched

\* some package of the indexes is named n or provides n
MatchesIndex(n) ==
    \E i \in DOMAIN indexes :
        \/ indexes[i].name = n
        \/ \E k \in DOMAIN indexes[i].provides : indexes[i].provides[k].name = n

\* the positive atoms of l that match no package of the indexes
unmatched(l) == {l[i] : i \in {j \in DOMAIN l : ~l[j].neg /\ ~MatchesIndex(l[j].name)}}

\* C14: a resolve with a positive top-level atom, or with a dependency atom
\* of a package the walk entered, that matches no package by name or provides
\* fails, and a resolve that fails returns no install list and no conflicts
C14_UnmatchedFails ==
    \A k \in DOMAIN runs :
        /\ (unmatched(packages) # {} \/ \E p \in runs[k].walked : unmatched(p.deps) # {})
               => runs[k].err # ""
        /\ runs[k].err # "" => runs[k].toInstall = <<>> /\ runs[k].conflicts = <<>>

\* a resolve whose top-level atoms all resolve failed on the dependency of a
\* package of the indexes that no package matches; conflicts had been collected
C14_Witness ==
    \E k \in DOMAIN runs :
        /\ runs[k].err = "notfound"
        /\ unmatched(packages) = {}
        /\ firstPass(packages, 1, EmptyMap, <<>>).err = ""
        /\ negatives(packages) # {}
        /\ \E i \in DOMAIN indexes :
              /\ unmatched(indexes[i].deps) # {}
              /\ \E j \in DOMAIN packages : packages[j] = Dep(indexes[i].name)

\* the consumer returned before the end of its range over done
ConsumerFailed == cpc = "returned" /\ ci <= allpkgs

\* C15: FixateWorld returns nil only when every package of the install list
\* was skipped as installed or had its install completed, and it returns an
\* error when a worker or the consumer failed
C15_NilMeansAllInstalled ==
    /\ result = "nil" =>
          \A i \in Slots : \E q \in DOMAIN log : log[q].slot = i /\ log[q].ev \in {"end", "skip"}
    /\ (fpc = "returned" /\ (ConsumerFailed \/ \E i \in Slots : wpc[i] = "failed"))
          => result = "err"

\* FixateWorld returned nil after it skipped one package and installed another
C15_Witness ==
    /\ result = "nil"
    /\ \E p, q \in DOMAIN log : log[p].ev = "skip" /\ log[q].ev = "end"

(***************************************************************************)
(* Properties of the repositories file.                                    *)
(***************************************************************************)
\* C16: GetRepositories after a successful SetRepositories(repos) returns
\* repos, the same strings in the same order
C16_RoundTrip ==
    (got.fn = "get" /\ got.err = "" /\ repos # <<>>) => got.repos = repos

SatisfiedBy(dep, q) ==
    \/ q.name = dep.name /\ (dep.cmp = "" \/ satisfies(dep.cmp, q.version, dep.ver))
    \/ \E k \in DOMAIN q.provides :
          /\ q.provides[k].name = dep.name
          /\ dep.cmp = "" \/ satisfies(dep.cmp, q.provides[k].ver, dep.ver)

\* C18: in the install list of a successful resolve every positive dependency
\* atom of every package is satisfied by a package of the list
C18_Closure ==
    \A k \in Successful :
        LET l == runs[k].toInstall IN
        \A i \in DOMAIN l : \A d \in DOMAIN l[i].deps :
            ~l[i].deps[d].neg => \E j \in DOMAIN l : SatisfiedBy(l[i].deps[d], l[j])

(***************************************************************************)
(* Properties of sortPackages.                                             *)
(***************************************************************************)
\* the comparison of sortPackages under the arguments of the call
less(p, q) == Less(p, q, sortArgs.compare, sortArgs.name, sortArgs.existing, sortArgs.pin)

incomparable(p, q) == ~less(p, q) /\ ~less(q, p)

\* C19: the comparison of sortPackages is a strict weak order on the
\* candidates: irreflexive, asymmetric, transitive, and with a transitive
\* incomparability
C19_StrictWeakOrder ==
    sortRes.done =>
        \A p, q, r \in SeqToSet(cand) :
            /\ ~less(p, p)
            /\ less(p, q) => ~less(q, p)
            /\ (less(p, q) /\ less(q, r)) => less(p, r)
            /\ (incomparable(p, q) /\ incomparable(q, r)) => incomparable(p, r)

\* no criterion that sortPackages looks at before the versions tells p from q
TiedBeforeVersion(p, q) ==
    LET a == sortArgs
        exact(x) == Has(a.existing, x.name) /\ a.existing[x.name].version = x.version
        originMatched(x) == x.origin \in existingOriginsOf(a.existing)
    IN  /\ a.compare # NoPkg =>
              /\ (p.uri = a.compare.uri) = (q.uri = a.compare.uri)
              /\ (p.origin = a.compare.origin) = (q.origin = a.compare.origin)
        /\ exact(p) = exact(q)
        /\ originMatched(p) = originMatched(q)
        /\ (p.pinnedName = a.pin) = (q.pinnedName = a.pin)
        /\ p.priority = q.priority

\* the version that sortPackages compares for p parses
VersionParses(p) == parseVersionOK(getDepVersionForName(p, sortArgs.name))

\* C20: after sortPackages no candidate whose version does not parse stands
\* before a candidate whose version parses and that is tied with it on every
\* criterion before the versions
C20_UnparseableLast ==
    sortRes.done =>
        \A i, j \in DOMAIN sortRes.pkgs :
            (i < j /\ TiedBeforeVersion(sortRes.pkgs[i], sortRes.pkgs[j])
                   /\ ~VersionParses(sortRes.pkgs[i]))
                => ~VersionParses(sortRes.pkgs[j])

\* the workers that run: inside expandPackage or about to close done[i]
expandingWorkers == {i \in Slots : wpc[i] \in {"expanding", "written"}}

consumerRuns == cpc \in {"select", "installing"}

\* C21: the goroutines of the group that run (the consumer and the workers
\* that have not returned) are at most GOMAXPROCS+1, and while the consumer
\* runs at most GOMAXPROCS workers run
C21_PoolBound ==
    /\ Cardinality(expandingWorkers) + (IF consumerRuns THEN 1 ELSE 0) <= jobs + 1
    /\ consumerRuns => Cardinality(expandingWorkers) <= jobs

\* the group is full while the consumer runs and a worker is still to be started
C21_Witness ==
    /\ consumerRuns
    /\ Cardinality(expandingWorkers) = jobs
    /\ fpc = "spawn"
    /\ nextSpawn <= allpkgs

\* the install_if atom is matched by the package p: by p's name for an atom
\* that is a bare name, else by p's name and a version equal to the atom's
MatchedBy(atom, p) ==
    /\ p.name = atom.name
    /\ atom = Dep(atom.name) \/ p.version = atom.ver

\* the packages the install_if pass of the call c appended
appendedBy(c) == SeqToSet(c.deps) \ SeqToSet(c.selected)

\* C22: a package the install_if pass appends has every atom of its install_if
\* list matched by a package of the dependencies of the call
C22_AppendedOnlyIfAllMet ==
    \A k \in DOMAIN runs : \A n \in DOMAIN runs[k].maps :
        LET c == runs[k].maps[n] IN
        \A q \in appendedBy(c) :
            /\ q.installIf # <<>>
            /\ \A a \in DOMAIN q.installIf :
                  \E i \in DOMAIN c.deps : MatchedBy(q.installIf[a], c.deps[i])

\* one call appended a package with two install_if atoms, and another call
\* of the run left out a package that has one atom matched and one not
C22_Witness ==
    \E k \in DOMAIN runs : \E n, m \in DOMAIN runs[k].maps :
        LET c == runs[k].maps[n]
            e == runs[k].maps[m]
        IN  /\ \E q \in appendedBy(c) : Len(q.installIf) = 2
            /\ \E t \in DOMAIN indexes :
                  /\ \A i \in DOMAIN e.deps : e.deps[i].name # indexes[t].name
                  /\ \E a \in DOMAIN indexes[t].installIf :
                        \E i \in DOMAIN e.deps : MatchedBy(indexes[t].installIf[a], e.deps[i])
                  /\ \E a \in DOMAIN indexes[t].installIf :
                        \A i \in DOMAIN e.deps : ~MatchedBy(indexes[t].installIf[a], e.deps[i])

C24_Returns == <>(fpc = "returned")

\* FixateWorld returned after the consumer, waiting for a slot whose worker
\* failed without closing done, took the cancellation, with the group full
\* of workers at the failure or after it
C24_Witness ==
    /\ fpc = "returned"
    /\ result = "err"
    /\ cpc = "returned"
    /\ ci <= allpkgs
    /\ wpc[ci] = "failed"
    /\ ~done[ci]
    /\ allpkgs > jobs + 1

\* the event of the log at which the worker of slot i closed done[i]
closesOf(i) == {p \in DOMAIN log : log[p].ev = "expanded" /\ log[p].slot = i}

\* C25: when the consumer turns to slot i (skips, starts or ends its install)
\* the worker of the slot has written expanded[i] and closed done[i], and no
\* done[i] is closed twice
C25_ReadAfterWrite ==
    /\ \A q \in DOMAIN log :
          log[q].ev \in {"start", "skip", "end"} =>
              /\ log[q].exp
              /\ \E p \in closesOf(log[q].slot) : p < q /\ log[p].exp
    /\ \A i \in Slots : Cardinality(closesOf(i)) <= 1
    /\ \A i \in Slots : done[i] => expanded[i]

\* the consumer waits for slot 1, whose worker has written expanded[1] and
\* not closed done[1] yet, while slot 2 is closed
C25_Witness ==
    /\ allpkgs >= 2
    /\ cpc = "select"
    /\ ci = 1
    /\ wpc[1] = "written"
    /\ expanded[1]
    /\ ~done[1]
    /\ done[2]

\* the packages that the atoms resolved in run k selected: the packages of the
\* top-level atoms and those the walks chose for the dependency atoms
selectedIn(k) ==
    UNION {{runs[k].maps[n].pkg} \cup SeqToSet(runs[k].maps[n].chosen) :
              n \in DOMAIN runs[k].maps}

\* C26: in a resolve that succeeds, the packages selected for one name are one
\* package
C26_OneVersionPerName ==
    \A k \in Successful :
        \A p, q \in selectedIn(k) : p.name = q.name => p.version = q.version

\* the lookup of the atom takes a branch that reads providesMap: no package
\* list is under its name in nameMap and a non-empty one is in providesMap
providesOnly(atom) ==
    /\ ~atom.neg
    /\ ~Has(nameMap, atom.name)
    /\ Has(providesMap, atom.name)
    /\ providesMap[atom.name] # <<>>

\* C27: every package of providesMap[name] is in nameMap[name], and no atom
\* that ResolvePackage or a walk looks up takes a provides-only branch; no
\* walk takes the first element of an empty list of providers
C27_NoProvidesOnlyBranch ==
    /\ \A n \in DOMAIN providesMap :
          /\ Has(nameMap, n)
          /\ SeqToSet(providesMap[n]) \subseteq SeqToSet(nameMap[n])
    /\ \A a \in ResolveAtoms \cup SeqToSet(packages) :
          ~providesOnly(a) /\ (~a.neg => ResolvePackage(a).branch # "provides")
    /\ \A k \in DOMAIN runs :
          /\ runs[k].err # "panic"
          /\ \A p \in runs[k].walked : \A i \in DOMAIN p.deps : ~providesOnly(p.deps[i])

\* a walk that succeeded looked up an atom whose name no package of the
\* indexes has and some package provides
C27_Witness ==
    \E k \in Successful : \E p \in runs[k].walked : \E i \in DOMAIN p.deps :
        /\ ~p.deps[i].neg
        /\ \A j \in DOMAIN indexes : indexes[j].name # p.deps[i].name
        /\ Has(providesMap, p.deps[i].name)
        /\ providesMap[p.deps[i].name] # <<>>

====
